---- MODULE Spec2Model ----
(***************************************************************************)
(* caer/opencv.py: a library of stateless wrappers around OpenCV           *)
(* primitives.  Every function is modelled as an operator that maps its    *)
(* arguments (and the behaviour of the external primitives it invokes) to  *)
(* an outcome (a returned value or a raised exception) and to the trace of *)
(* the primitive invocations it made.  A caller draws a call, the action   *)
(* of the called function runs it, and the caller may then issue one more  *)
(* call that depends on the first one (feeding a result back, or repeating *)
(* a call with other thresholds).                                          *)
(***************************************************************************)
EXTENDS Integers, Sequences, FiniteSets, TLC

VARIABLES
    call,      \* the call being made: [fn, args, env]
    pc,        \* "call": about to run,  "done": the call has ended
    outcome,   \* how the call ended: Return(v) or Raise(exc, msg)
    trace,     \* the primitive invocations the call made, in order
    hist       \* the caller's earlier, completed calls

vars == <<call, pc, outcome, trace, hist>>

(***************************************************************************)
(* Bounds of the model.                                                    *)
(***************************************************************************)
SigmaDen == 8       \* supplied sigmas are the multiples of 1/SigmaDen
MaxChannels == 5    \* size of the channel dimension of a 3-d image
MaxDims == 4        \* number of dimensions of an image

MaxPixel == 255     \* the clamp of opencv.py line 135 (8-bit samples)

Samples == {0, 100, MaxPixel}

(***************************************************************************)
(* Python values: a type tag and a payload.                                *)
(***************************************************************************)
None == [t |-> "NoneType", v |-> 0]
PyInt(n) == [t |-> "int", v |-> n]
PyBool(b) == [t |-> "bool", v |-> b]
PyFloat(n, d) == [t |-> "float", v |-> <<n, d>>]       \* the rational n/d, d > 0
PyStr(s) == [t |-> "str", v |-> s]
PyTuple(s) == [t |-> "tuple", v |-> s]
NdArray(shape, data) == [t |-> "ndarray", v |-> [shape |-> shape, data |-> data]]

\* isinstance(x, int): bool is a subclass of int.
IsInstanceInt(x) == x.t \in {"int", "bool"}
IsInstanceBool(x) == x.t = "bool"

Product(s) ==
    LET RECURSIVE P(_)
        P(i) == IF i > Len(s) THEN 1 ELSE s[i] * P(i + 1)
    IN P(1)

ndim(img) == Len(img.v.shape)

(***************************************************************************)
(* Outcomes and primitive invocations.                                     *)
(***************************************************************************)
Return(v) == [kind |-> "return", val |-> v]
Raise(exc, msg) == [kind |-> "raise", val |-> <<exc, msg>>]
NoOutcome == [kind |-> "none", val |-> <<>>]

\* The exception an external primitive raises itself.
PrimError(name) == Raise("primitive error", name)
\* The value an external primitive returns: an uninterpreted term of its arguments.
PrimResult(name, a) == [t |-> "result", v |-> <<name, a>>]

Res(o, tr) == [outcome |-> o, trace |-> tr]

\* One invocation of an external primitive, appended to the trace tr.  The
\* environment decides whether it fails: env.fault is the position, among the
\* call's invocations, of the one that raises (0: none does).
Invoke(tr, name, a, env, accepts) ==
    LET ok == accepts /\ env.fault # Len(tr) + 1
    IN [ok |-> ok,
        val |-> PrimResult(name, a),
        trace |-> Append(tr, [prim |-> name, args |-> a, ok |-> ok])]

(***************************************************************************)
(* median (caer/utilities.py): the median of all samples of the image,     *)
(* the mean of the two middle samples when their number is even.           *)
(* Median2 is twice the median, an integer.                                *)
(***************************************************************************)
Kth(d, k) ==
    CHOOSE x \in {d[i] : i \in DOMAIN d} :
        /\ Cardinality({i \in DOMAIN d : d[i] < x}) < k
        /\ k <= Cardinality({i \in DOMAIN d : d[i] <= x})

Median2(img) ==
    LET d == img.v.data
        n == Len(d)
    IN IF n % 2 = 1 THEN 2 * Kth(d, (n + 1) \div 2)
       ELSE Kth(d, n \div 2) + Kth(d, n \div 2 + 1)

(***************************************************************************)
(* edges                                                                   *)
(***************************************************************************)
\* A number as the rational <<numerator, denominator>>.
Rat(x) == IF x.t = "float" THEN x.v ELSE <<x.v, 1>>

\* Whether the rational is a double exactly (a dyadic rational): arithmetic
\* on such sigmas and on medians (multiples of 1/2 below 256) is exact.
Representable(r) == \E p \in {1, 2, 4, 8, 16} : (r[1] * p) % r[2] = 0

\* int(): truncation toward zero of a/b, b > 0.
Trunc(a, b) == IF a >= 0 THEN a \div b ELSE -((-a) \div b)

\* int() of a double product whose real value is a/b.  When sigma is not a
\* double exactly, a product whose real value is a positive integer may come
\* out just below it; the environment (down) says whether it does.
TruncProduct(a, b, exact, down) ==
    IF ~exact /\ down /\ a > 0 /\ a % b = 0 THEN a \div b - 1 ELSE Trunc(a, b)

\* The default taken for every falsy sigma (sigma = sigma or .3).
sigma_or_default_falsy(sigma) ==
    IF sigma = None \/ Rat(sigma)[1] = 0 THEN PyFloat(3, 10) ELSE sigma

DefaultSigma == PyFloat(3, 10)

\* lines 127-128
sigma_or_default(sigma) == IF sigma = None THEN DefaultSigma ELSE sigma

\* line 134: low = int(max(0, (1.0-sigma) * med)), med = med2/2
low_threshold(sigma, med2, env) ==
    LET r == Rat(sigma)
        a == (r[2] - r[1]) * med2
        b == 2 * r[2]
    IN IF a <= 0 THEN 0 ELSE TruncProduct(a, b, Representable(r), env.downLow)

\* line 135: up = int(min(255, (1.0+sigma) * med))
up_threshold(sigma, med2, env) ==
    LET r == Rat(sigma)
        a == (r[2] + r[1]) * med2
        b == 2 * r[2]
    IN IF a > MaxPixel * b THEN MaxPixel
       ELSE TruncProduct(a, b, Representable(r), env.downUp)

\* The integer check made in manual mode only.
edges_checks_manual_only(img, threshold1, threshold2, use_median) ==
    IF ~IsInstanceBool(use_median)
    THEN Raise("ValueError", "use_median must be a boolean")
    ELSE IF ~use_median.v /\ (~IsInstanceInt(threshold1) \/ ~IsInstanceInt(threshold2))
    THEN Raise("ValueError", "Threshold values must be integers")
    ELSE IF img = None
    THEN Raise("ValueError", "Image is of NoneType()")
    ELSE None

\* lines 114-124: the checks, in order; None when all pass.
edges_checks(img, threshold1, threshold2, use_median) ==
    IF ~IsInstanceBool(use_median)
    THEN Raise("ValueError", "use_median must be a boolean")
    ELSE IF ~IsInstanceInt(threshold1) \/ ~IsInstanceInt(threshold2)
    THEN Raise("ValueError", "Threshold values must be integers")
    ELSE IF img = None
    THEN Raise("ValueError", "Image is of NoneType()")
    ELSE IF ~use_median.v /\ (threshold1 = None \/ threshold2 = None)
    THEN Raise("ValueError", "Specify valid threshold values")
    ELSE None

\* Automatic mode that lets a supplied threshold1 replace the computed low.
edges_auto_keeps_threshold1(img, threshold1, threshold2, sigma, env) ==
    LET s == IF sigma = None THEN PyFloat(3, 10) ELSE sigma
        m == Invoke(<<>>, "median", <<img>>, env, TRUE)
    IN IF ~m.ok THEN Res(PrimError("median"), m.trace)
       ELSE LET up == up_threshold(s, Median2(img), env)
                c == Invoke(m.trace, "Canny", <<img, threshold1, PyInt(up)>>, env, TRUE)
            IN IF c.ok THEN Res(Return(c.val), c.trace)
               ELSE Res(PrimError("Canny"), c.trace)

\* lines 126-136: automatic mode
edges_auto(img, threshold1, threshold2, sigma, env) ==
    LET s == sigma_or_default(sigma)
        m == Invoke(<<>>, "median", <<img>>, env, TRUE)
    IN IF ~m.ok THEN Res(PrimError("median"), m.trace)
       ELSE LET low == low_threshold(s, Median2(img), env)
                up == up_threshold(s, Median2(img), env)
                c == Invoke(m.trace, "Canny", <<img, PyInt(low), PyInt(up)>>, env, TRUE)
            IN IF c.ok THEN Res(Return(c.val), c.trace)
               ELSE Res(PrimError("Canny"), c.trace)

\* lines 138-139: manual mode
edges_manual(img, threshold1, threshold2, env) ==
    LET c == Invoke(<<>>, "Canny", <<img, threshold1, threshold2>>, env, TRUE)
    IN IF c.ok THEN Res(Return(c.val), c.trace)
       ELSE Res(PrimError("Canny"), c.trace)

\* lines 113-141
edges(img, threshold1, threshold2, use_median, sigma, env) ==
    LET e == edges_checks(img, threshold1, threshold2, use_median)
    IN IF e # None THEN Res(e, <<>>)
       ELSE IF use_median.v
       THEN edges_auto(img, threshold1, threshold2, sigma, env)
       ELSE edges_manual(img, threshold1, threshold2, env)

(***************************************************************************)
(* translate and rotate                                                    *)
(***************************************************************************)
NoShape == Raise("AttributeError", "'NoneType' object has no attribute 'shape'")

\* lines 49-56
translate(image, x, y, env) ==
    IF image = None THEN Res(NoShape, <<>>)
    ELSE IF ndim(image) < 2
    THEN Res(Raise("IndexError", "tuple index out of range"), <<>>)
    ELSE LET transMat == <<<<1, 0, x.v>>, <<0, 1, y.v>>>>
             dsize == <<image.v.shape[2], image.v.shape[1]>>
             w == Invoke(<<>>, "warpAffine", <<image, transMat, dsize>>, env, TRUE)
         IN IF w.ok THEN Res(Return(w.val), w.trace)
            ELSE Res(PrimError("warpAffine"), w.trace)

\* lines 59-89: centre is bound only in the branch of line 85-86
rotate(image, angle, rotPoint, env) ==
    IF image = None THEN Res(NoShape, <<>>)
    ELSE IF ndim(image) < 2
    THEN Res(Raise("ValueError", "not enough values to unpack"), <<>>)
    ELSE LET height == image.v.shape[1]
             width == image.v.shape[2]
         IN IF rotPoint # None
            THEN Res(Raise("UnboundLocalError", "centre"), <<>>)
            ELSE LET centre == <<width \div 2, height \div 2>>
                     r == Invoke(<<>>, "getRotationMatrix2D",
                                 <<centre, angle.v, 1>>, env, TRUE)
                     w == Invoke(r.trace, "warpAffine",
                                 <<image, r.val, <<width, height>>>>, env, TRUE)
                 IN IF ~r.ok THEN Res(PrimError("getRotationMatrix2D"), r.trace)
                    ELSE IF ~w.ok THEN Res(PrimError("warpAffine"), w.trace)
                    ELSE Res(Return(w.val), w.trace)

(***************************************************************************)
(* mean, merge, split                                                      *)
(***************************************************************************)
\* The number of channels OpenCV sees: the third dimension of a 3-d array,
\* one otherwise.
channels(img) == IF ndim(img) = 3 THEN img.v.shape[3] ELSE 1
pixels(img) == Product(img.v.shape) \div channels(img)

SumOver(f, S) ==
    LET RECURSIVE Sum(_)
        Sum(T) == IF T = {} THEN 0
                  ELSE LET x == CHOOSE y \in T : TRUE IN f[x] + Sum(T \ {x})
    IN Sum(S)

\* cv.mean: a Scalar, four numbers whatever the number of channels; the
\* entries past the image's channels are zero.  It takes at most 4 channels,
\* and a mask of the image's height and width.
MeanAccepts(image, mask) ==
    /\ image.t = "ndarray"
    /\ channels(image) <= 4
    /\ \/ mask = None
       \/ /\ mask.t = "ndarray"
          /\ ndim(mask) = 2
          /\ mask.v.shape = SubSeq(image.v.shape, 1, 2)

MeanValue(image, mask) ==
    LET c == channels(image)
        sel == {p \in 1..pixels(image) : mask = None \/ mask.v.data[p] # 0}
        chan(k) == [p \in sel |-> image.v.data[(p - 1) * c + k]]
    IN PyTuple([k \in 1..4 |->
                   IF k <= c /\ sel # {}
                   THEN PyFloat(SumOver(chan(k), sel), Cardinality(sel))
                   ELSE PyFloat(0, 1)])

GenericError == Raise("ValueError", "mean() expects an image")

\* mean cut down to the image's channels.
mean_per_channel(image, mask, env) ==
    LET m == Invoke(<<>>, "mean", <<image, mask>>, env, MeanAccepts(image, mask))
    IN IF m.ok
       THEN Res(Return(PyTuple(SubSeq(MeanValue(image, mask).v, 1, channels(image)))),
                m.trace)
       ELSE Res(GenericError, m.trace)

\* lines 144-148
mean(image, mask, env) ==
    LET m == Invoke(<<>>, "mean", <<image, mask>>, env, MeanAccepts(image, mask))
    IN IF m.ok THEN Res(Return(MeanValue(image, mask)), m.trace)
       ELSE Res(GenericError, m.trace)

\* lines 151-155
merge(img, env) ==
    LET m == Invoke(<<>>, "merge", <<img>>, env, img.t = "tuple")
    IN IF m.ok THEN Res(Return(m.val), m.trace)
       ELSE Res(PrimError("merge"), m.trace)

\* split without its try/except.
split_unwrapped(img, env) ==
    LET m == Invoke(<<>>, "split", <<img>>, env, img.t = "ndarray")
    IN IF m.ok THEN Res(Return(m.val), m.trace)
       ELSE Res(PrimError("split"), m.trace)

\* lines 158-162
split(img, env) ==
    LET m == Invoke(<<>>, "split", <<img>>, env, img.t = "ndarray")
    IN IF m.ok THEN Res(Return(m.val), m.trace)
       ELSE Res(GenericError, m.trace)

(***************************************************************************)
(* Colour conversions                                                      *)
(***************************************************************************)
\* Red and blue exchanged; a fourth (alpha) channel is dropped.
SwapRB(img) ==
    LET c == channels(img)
        n == pixels(img)
    IN NdArray(<<img.v.shape[1], img.v.shape[2], 3>>,
               [i \in 1..(3 * n) |->
                   img.v.data[((i - 1) \div 3) * c + (3 - ((i - 1) % 3))]])

\* cv.cvtColor from BGR or RGB: it takes 3 or 4 channels.  The two codes that
\* exchange red and blue are computed; the other colour spaces are opaque.
cvtColor(img, code, env) ==
    LET c == Invoke(<<>>, "cvtColor", <<img, code>>, env, channels(img) \in {3, 4})
    IN IF ~c.ok THEN Res(PrimError("cvtColor"), c.trace)
       ELSE IF code \in {"BGR2RGB", "RGB2BGR"} THEN Res(Return(SwapRB(img)), c.trace)
       ELSE Res(Return(c.val), c.trace)

ShapeError(img, what) ==
    Raise("ValueError", <<"Image of shape 3 expected. Found shape", ndim(img), what>>)

\* lines 165-172
bgr_to_rgb(img, env) ==
    IF img = None THEN Res(NoShape, <<>>)
    ELSE IF ndim(img) # 3
    THEN Res(ShapeError(img, "a BGR image to its RGB counterpart"), <<>>)
    ELSE cvtColor(img, "BGR2RGB", env)

\* rgb_to_bgr with the conversion code of its neighbour.
rgb_to_bgr_wrong_code(img, env) ==
    IF img = None THEN Res(NoShape, <<>>)
    ELSE IF ndim(img) # 3
    THEN Res(ShapeError(img, "an RGB image to its BGR counterpart"), <<>>)
    ELSE cvtColor(img, "RGB2GRAY", env)

\* lines 175-182
rgb_to_bgr(img, env) ==
    IF img = None THEN Res(NoShape, <<>>)
    ELSE IF ndim(img) # 3
    THEN Res(ShapeError(img, "an RGB image to its BGR counterpart"), <<>>)
    ELSE cvtColor(img, "RGB2BGR", env)

\* bgr_to_gray rejecting only images of fewer than 3 dimensions.
bgr_to_gray_at_least_3(img, env) ==
    IF img = None THEN Res(NoShape, <<>>)
    ELSE IF ndim(img) < 3
    THEN Res(ShapeError(img, "a BGR image to its Grayscale counterpart"), <<>>)
    ELSE cvtColor(img, "BGR2GRAY", env)

\* lines 185-192
bgr_to_gray(img, env) ==
    IF img = None THEN Res(NoShape, <<>>)
    ELSE IF ndim(img) # 3
    THEN Res(ShapeError(img, "a BGR image to its Grayscale counterpart"), <<>>)
    ELSE cvtColor(img, "BGR2GRAY", env)

\* lines 195-202
rgb_to_gray(img, env) ==
    IF img = None THEN Res(NoShape, <<>>)
    ELSE IF ndim(img) # 3
    THEN Res(ShapeError(img, "an RGB image to its Grayscale counterpart"), <<>>)
    ELSE cvtColor(img, "RGB2GRAY", env)

\* lines 205-212
bgr_to_hsv(img, env) ==
    IF img = None THEN Res(NoShape, <<>>)
    ELSE IF ndim(img) # 3
    THEN Res(ShapeError(img, "a BGR image to its HSV counterpart"), <<>>)
    ELSE cvtColor(img, "BGR2HSV", env)

\* lines 215-222
rgb_to_hsv(img, env) ==
    IF img = None THEN Res(NoShape, <<>>)
    ELSE IF ndim(img) # 3
    THEN Res(ShapeError(img, "an RGB image to its HSV counterpart"), <<>>)
    ELSE cvtColor(img, "RGB2HSV", env)

\* lines 225-232
bgr_to_lab(img, env) ==
    IF img = None THEN Res(NoShape, <<>>)
    ELSE IF ndim(img) # 3
    THEN Res(ShapeError(img, "a BGR image to its LAB counterpart"), <<>>)
    ELSE cvtColor(img, "BGR2LAB", env)

\* lines 235-242
rgb_to_lab(img, env) ==
    IF img = None THEN Res(NoShape, <<>>)
    ELSE IF ndim(img) # 3
    THEN Res(ShapeError(img, "an RGB image to its LAB counterpart"), <<>>)
    ELSE cvtColor(img, "RGB2LAB", env)

(***************************************************************************)
(* energy_map, color_map, url_to_image                                     *)
(***************************************************************************)
\* lines 245-254
energy_map(img, env) ==
    IF img = None
    THEN Res(Raise("AttributeError", "'NoneType' object has no attribute 'astype'"), <<>>)
    ELSE
    LET g == bgr_to_gray(img, env)
        gray == g.outcome.val
        dx == Invoke(g.trace, "Sobel", <<gray, "CV_16S", 1, 0, 3>>, env, TRUE)
        ax == Invoke(dx.trace, "convertScaleAbs", <<dx.val>>, env, TRUE)
        dy == Invoke(ax.trace, "Sobel", <<gray, "CV_16S", 0, 1, 3>>, env, TRUE)
        ay == Invoke(dy.trace, "convertScaleAbs", <<dy.val>>, env, TRUE)
        out == Invoke(ay.trace, "addWeighted", <<ax.val, 5, ay.val, 5, 0>>, env, TRUE)
    IN IF g.outcome.kind = "raise" THEN g
       ELSE IF ~dx.ok THEN Res(PrimError("Sobel"), dx.trace)
       ELSE IF ~ax.ok THEN Res(PrimError("convertScaleAbs"), ax.trace)
       ELSE IF ~dy.ok THEN Res(PrimError("Sobel"), dy.trace)
       ELSE IF ~ay.ok THEN Res(PrimError("convertScaleAbs"), ay.trace)
       ELSE IF ~out.ok THEN Res(PrimError("addWeighted"), out.trace)
       ELSE Res(Return(out.val), out.trace)

\* lines 257-263
color_map(img, env) ==
    LET g == bgr_to_gray(img, env)
        gray_img == g.outcome.val
        heatmap == Invoke(g.trace, "applyColorMap", <<gray_img, 11>>, env, TRUE)
        superimpose == Invoke(heatmap.trace, "addWeighted",
                              <<heatmap.val, 7, img, 3, 0>>, env, TRUE)
    IN IF g.outcome.kind = "raise" THEN g
       ELSE IF ~heatmap.ok THEN Res(PrimError("applyColorMap"), heatmap.trace)
       ELSE IF ~superimpose.ok THEN Res(PrimError("addWeighted"), superimpose.trace)
       ELSE Res(Return(superimpose.val), superimpose.trace)

\* What a URL serves: the bytes of a picture, or bytes that are no picture.
PictureUrl == PyStr("http://host/picture.png")
TextUrl == PyStr("http://host/notes.txt")
Picture == NdArray(<<1, 1, 3>>, <<0, 100, MaxPixel>>)
Decodable(url) == url = PictureUrl

\* if rgb:
Truthy(x) ==
    CASE x.t = "bool" -> x.v
      [] x.t = "int" -> x.v # 0
      [] x.t = "NoneType" -> FALSE
      [] OTHER -> TRUE

\* The environment of a callee that runs after k invocations of its caller.
After(env, k) == [env EXCEPT !.fault = IF @ > k THEN @ - k ELSE 0]

\* url_to_image answering None when the fetch fails.
url_to_image_swallows(url, rgb, env) ==
    LET response == Invoke(<<>>, "urlopen", <<url>>, env, TRUE)
        bytes == Invoke(response.trace, "read", <<response.val>>, env, TRUE)
        dec == Invoke(bytes.trace, "imdecode", <<bytes.val, "IMREAD_COLOR">>, env, TRUE)
        image == IF Decodable(url) THEN Picture ELSE None
        conv == bgr_to_rgb(image, After(env, Len(dec.trace)))
    IN IF ~response.ok THEN Res(Return(None), response.trace)
       ELSE IF ~bytes.ok THEN Res(Return(None), bytes.trace)
       ELSE IF ~dec.ok THEN Res(PrimError("imdecode"), dec.trace)
       ELSE IF Truthy(rgb) THEN Res(conv.outcome, dec.trace \o conv.trace)
       ELSE Res(Return(image), dec.trace)

\* lines 266-273.  cv.imdecode returns None, and raises nothing, for bytes
\* that are no picture.
url_to_image(url, rgb, env) ==
    LET response == Invoke(<<>>, "urlopen", <<url>>, env, TRUE)
        bytes == Invoke(response.trace, "read", <<response.val>>, env, TRUE)
        dec == Invoke(bytes.trace, "imdecode", <<bytes.val, "IMREAD_COLOR">>, env, TRUE)
        image == IF Decodable(url) THEN Picture ELSE None
        conv == bgr_to_rgb(image, After(env, Len(dec.trace)))
    IN IF ~response.ok THEN Res(PrimError("urlopen"), response.trace)
       ELSE IF ~bytes.ok THEN Res(PrimError("read"), bytes.trace)
       ELSE IF ~dec.ok THEN Res(PrimError("imdecode"), dec.trace)
       ELSE IF Truthy(rgb) THEN Res(conv.outcome, dec.trace \o conv.trace)
       ELSE Res(Return(image), dec.trace)

(***************************************************************************)
(* The inputs the caller draws.                                            *)
(***************************************************************************)
\* All images of a shape over a set of sample values.
ImagesOf(shape, samples) ==
    {NdArray(shape, d) : d \in [1..Product(shape) -> samples]}

\* Single-channel images for edges.
GrayImages == ImagesOf(<<1, 1>>, Samples) \cup ImagesOf(<<1, 2>>, Samples)
\* One-pixel 3-d images of every channel count, and two-pixel BGR images.
ColourImages ==
    UNION {ImagesOf(<<1, 1, c>>, Samples) : c \in 1..MaxChannels}
        \cup ImagesOf(<<1, 2, 3>>, {0, MaxPixel})
\* Images of every other number of dimensions.
ShapeOfDims(nd) == [i \in 1..nd |-> IF i = nd THEN 2 ELSE 1]
OtherDimImages ==
    UNION {ImagesOf(ShapeOfDims(nd), Samples) : nd \in (1..MaxDims) \ {3}}
ColourInputs == {None} \cup ColourImages \cup OtherDimImages
TransformInputs ==
    {None} \cup GrayImages \cup ImagesOf(<<2>>, Samples)
        \cup ImagesOf(<<1, 1, 3>>, Samples)
Masks == ImagesOf(<<1, 1>>, {0, MaxPixel}) \cup ImagesOf(<<1, 2>>, {0, MaxPixel})
ChannelLists ==
    {PyTuple(l) : l \in UNION {[1..n -> ImagesOf(<<1, 1>>, Samples)] : n \in 1..3}}

Env(f, dl, du) == [fault |-> f, downLow |-> dl, downUp |-> du]
Envs(maxFault) == {Env(f, FALSE, FALSE) : f \in 0..maxFault}
\* Environments for edges: the rounding of the two products too.
EdgesEnvs == {Env(f, dl, du) : f \in 0..2, dl \in BOOLEAN, du \in BOOLEAN}

Thresholds == {None, PyInt(50), PyInt(150), PyBool(TRUE), PyFloat(3, 2)}
IntThresholds == {PyInt(50), PyInt(150)}
Flags == {PyBool(TRUE), PyBool(FALSE), PyInt(1)}
SigmaGrid == {PyFloat(k, SigmaDen) : k \in (-SigmaDen)..(2 * SigmaDen)}
Sigmas == {None, PyInt(0), PyFloat(1, 2)}

Call(fn, args, env) == [fn |-> fn, args |-> args, env |-> env]

EdgesArgs(i, a, b, u, s) ==
    [img |-> i, threshold1 |-> a, threshold2 |-> b, use_median |-> u, sigma |-> s]

EdgesCalls ==
    {Call("edges", EdgesArgs(i, a, b, u, s), e) :
        i \in GrayImages \cup {None}, a \in Thresholds, b \in Thresholds,
        u \in Flags, s \in Sigmas, e \in EdgesEnvs}

ColourFns ==
    {"bgr_to_rgb", "rgb_to_bgr", "bgr_to_gray", "rgb_to_gray",
     "bgr_to_hsv", "rgb_to_hsv", "bgr_to_lab", "rgb_to_lab"}

ColourCalls ==
    {Call(f, [img |-> i], e) : f \in ColourFns, i \in ColourInputs, e \in Envs(1)}

Offsets == {PyInt(-1), PyInt(0), PyInt(2)}
TranslateCalls ==
    {Call("translate", [image |-> i, x |-> x, y |-> y], e) :
        i \in TransformInputs, x \in Offsets, y \in Offsets, e \in Envs(1)}

RotPoints == {None, PyTuple(<<0, 0>>), PyTuple(<<1, 0>>)}
RotateCalls ==
    {Call("rotate", [image |-> i, angle |-> a, rotPoint |-> r], e) :
        i \in TransformInputs, a \in {PyInt(0), PyInt(90)}, r \in RotPoints,
        e \in Envs(2)}

MeanCalls ==
    {Call("mean", [image |-> i, mask |-> m], e) :
        i \in {None} \cup GrayImages \cup ColourImages, m \in {None} \cup Masks,
        e \in Envs(1)}

MergeCalls ==
    {Call("merge", [img |-> l], e) : l \in {None} \cup ChannelLists, e \in Envs(1)}

SplitCalls ==
    {Call("split", [img |-> i], e) :
        i \in {None} \cup GrayImages \cup ColourImages, e \in Envs(1)}

EnergyMapCalls ==
    {Call("energy_map", [img |-> i], e) : i \in ColourInputs, e \in Envs(6)}

ColorMapCalls ==
    {Call("color_map", [img |-> i], e) : i \in ColourInputs, e \in Envs(3)}

UrlCalls ==
    {Call("url_to_image", [url |-> u, rgb |-> r], e) :
        u \in {PictureUrl, TextUrl}, r \in {PyBool(TRUE), PyBool(FALSE), None},
        e \in Envs(4)}


\* Automatic edge detection over every 8-bit median and the whole sigma grid.
AutoImages ==
    ImagesOf(<<1, 1>>, 0..MaxPixel) \cup ImagesOf(<<1, 2>>, Samples \cup {1})
AutoCalls ==
    {Call("edges", EdgesArgs(i, PyInt(50), PyInt(150), PyBool(TRUE), s), e) :
        i \in AutoImages, s \in SigmaGrid \cup {None}, e \in EdgesEnvs}

\* The call a caller makes next, given the one that has ended: the result of
\* a red/blue exchange converted back, or an edge detection that got past
\* its checks repeated with other thresholds and another sigma.
FollowUps(c, o, tr) ==
    IF c.fn = "bgr_to_rgb" /\ o.kind = "return" /\ o.val.t = "ndarray"
    THEN {Call("rgb_to_bgr", [img |-> o.val], e) : e \in Envs(1)}
    ELSE IF c.fn = "rgb_to_bgr" /\ o.kind = "return" /\ o.val.t = "ndarray"
    THEN {Call("bgr_to_rgb", [img |-> o.val], e) : e \in Envs(1)}
    ELSE IF c.fn = "edges" /\ tr # <<>>
    THEN {Call("edges",
               [c.args EXCEPT !.threshold1 = a, !.threshold2 = b, !.sigma = s],
               c.env) : a \in IntThresholds, b \in IntThresholds, s \in Sigmas}
    ELSE {}

(***************************************************************************)
(* The state machine.                                                      *)
(***************************************************************************)
Finish(r) ==
    /\ pc' = "done"
    /\ outcome' = r.outcome
    /\ trace' = r.trace
    /\ UNCHANGED <<call, hist>>

Start(f) == pc = "call" /\ call.fn = f

Call_edges ==
    /\ Start("edges")
    /\ Finish(edges(call.args.img, call.args.threshold1, call.args.threshold2,
                    call.args.use_median, call.args.sigma, call.env))

Call_translate ==
    /\ Start("translate")
    /\ Finish(translate(call.args.image, call.args.x, call.args.y, call.env))

Call_rotate ==
    /\ Start("rotate")
    /\ Finish(rotate(call.args.image, call.args.angle, call.args.rotPoint, call.env))

Call_mean ==
    /\ Start("mean")
    /\ Finish(mean(call.args.image, call.args.mask, call.env))

Call_merge ==
    /\ Start("merge")
    /\ Finish(merge(call.args.img, call.env))

Call_split ==
    /\ Start("split")
    /\ Finish(split(call.args.img, call.env))

Call_bgr_to_rgb ==
    /\ Start("bgr_to_rgb")
    /\ Finish(bgr_to_rgb(call.args.img, call.env))

Call_rgb_to_bgr ==
    /\ Start("rgb_to_bgr")
    /\ Finish(rgb_to_bgr(call.args.img, call.env))

Call_bgr_to_gray ==
    /\ Start("bgr_to_gray")
    /\ Finish(bgr_to_gray(call.args.img, call.env))

Call_rgb_to_gray ==
    /\ Start("rgb_to_gray")
    /\ Finish(rgb_to_gray(call.args.img, call.env))

Call_bgr_to_hsv ==
    /\ Start("bgr_to_hsv")
    /\ Finish(bgr_to_hsv(call.args.img, call.env))

Call_rgb_to_hsv ==
    /\ Start("rgb_to_hsv")
    /\ Finish(rgb_to_hsv(call.args.img, call.env))

Call_bgr_to_lab ==
    /\ Start("bgr_to_lab")
    /\ Finish(bgr_to_lab(call.args.img, call.env))

Call_rgb_to_lab ==
    /\ Start("rgb_to_lab")
    /\ Finish(rgb_to_lab(call.args.img, call.env))

Call_energy_map ==
    /\ Start("energy_map")
    /\ Finish(energy_map(call.args.img, call.env))

Call_color_map ==
    /\ Start("color_map")
    /\ Finish(color_map(call.args.img, call.env))

Call_url_to_image ==
    /\ Start("url_to_image")
    /\ Finish(url_to_image(call.args.url, call.args.rgb, call.env))

\* The caller makes one more call.
Again ==
    /\ pc = "done"
    /\ hist = <<>>
    /\ call' \in FollowUps(call, outcome, trace)
    /\ hist' = <<[call |-> call, outcome |-> outcome, trace |-> trace]>>
    /\ pc' = "call"
    /\ outcome' = NoOutcome
    /\ trace' = <<>>

Fresh ==
    /\ pc = "call"
    /\ outcome = NoOutcome
    /\ trace = <<>>
    /\ hist = <<>>

Init ==
    /\ \/ call \in EdgesCalls
       \/ call \in ColourCalls
       \/ call \in TranslateCalls
       \/ call \in RotateCalls
       \/ call \in MeanCalls
       \/ call \in MergeCalls
       \/ call \in SplitCalls
       \/ call \in EnergyMapCalls
       \/ call \in ColorMapCalls
       \/ call \in UrlCalls
    /\ Fresh

Next ==
    \/ Call_edges
    \/ Call_translate
    \/ Call_rotate
    \/ Call_mean
    \/ Call_merge
    \/ Call_split
    \/ Call_bgr_to_rgb
    \/ Call_rgb_to_bgr
    \/ Call_bgr_to_gray
    \/ Call_rgb_to_gray
    \/ Call_bgr_to_hsv
    \/ Call_rgb_to_hsv
    \/ Call_bgr_to_lab
    \/ Call_rgb_to_lab
    \/ Call_energy_map
    \/ Call_color_map
    \/ Call_url_to_image
    \/ Again

Spec == Init /\ [][Next]_vars

\* Automatic edge detection alone, over the larger inputs.
InitAuto == call \in AutoCalls /\ Fresh

NextAuto == Call_edges

SpecAuto == InitAuto /\ [][NextAuto]_vars

(***************************************************************************)
(* Properties.                                                             *)
(***************************************************************************)
Done(f) == pc = "done" /\ call.fn = f

ErrUseMedian == Raise("ValueError", "use_median must be a boolean")
ErrThresholdType == Raise("ValueError", "Threshold values must be integers")
ErrNullImage == Raise("ValueError", "Image is of NoneType()")
ErrMissingThreshold == Raise("ValueError", "Specify valid threshold values")

FlagIsBool == call.args.use_median.t = "bool"
ThresholdsAreInts ==
    /\ call.args.threshold1.t \in {"int", "bool"}
    /\ call.args.threshold2.t \in {"int", "bool"}
ThresholdAbsent == call.args.threshold1 = None \/ call.args.threshold2 = None

\* C1: edges reports the first failing check in the order flag type,
\* threshold types (whatever the flag), absent image, absent threshold in
\* manual mode; with both thresholds None in automatic mode that is the
\* threshold-type error, for every img; and no check that fails leaves a
\* primitive invoked.
C1_ChecksInOrder ==
    Done("edges") =>
        /\ ~FlagIsBool => outcome = ErrUseMedian
        /\ (FlagIsBool /\ ~ThresholdsAreInts) => outcome = ErrThresholdType
        /\ (FlagIsBool /\ ThresholdsAreInts /\ call.args.img = None)
               => outcome = ErrNullImage
        /\ (FlagIsBool /\ ThresholdsAreInts /\ call.args.img # None
                /\ ~call.args.use_median.v /\ ThresholdAbsent)
               => outcome = ErrMissingThreshold
        /\ (call.args.use_median = PyBool(TRUE) /\ call.args.threshold1 = None
                /\ call.args.threshold2 = None)
               => outcome = ErrThresholdType
        /\ (~FlagIsBool \/ ~ThresholdsAreInts \/ call.args.img = None) => trace = <<>>
        /\ outcome \in {ErrUseMedian, ErrThresholdType, ErrNullImage, ErrMissingThreshold}
               => trace = <<>>

C1_Witness ==
    /\ Done("edges")
    /\ call.args.use_median = PyBool(TRUE)
    /\ call.args.threshold1 = None
    /\ call.args.threshold2 = None
    /\ call.args.img # None
    /\ outcome = ErrThresholdType
    /\ trace = <<>>

\* C2: in manual mode (use_median = False) with a present image and an absent
\* threshold, edges fails with the missing-threshold error.
C2_MissingThresholdError ==
    (Done("edges") /\ call.args.use_median = PyBool(FALSE) /\ call.args.img # None
        /\ ThresholdAbsent)
    => outcome = ErrMissingThreshold

IsPlaneImage(x) == x.t = "ndarray" /\ ndim(x) >= 2

\* C3: rotate turns about rotPoint when it is given and about
\* (width//2, height//2) when it is None, and a call with an explicit rotPoint
\* completes with an image of the input's width and height.
C3_RotateAboutPoint ==
    (Done("rotate") /\ IsPlaneImage(call.args.image) /\ call.env.fault = 0) =>
        LET width == call.args.image.v.shape[2]
            height == call.args.image.v.shape[1]
        IN /\ outcome.kind = "return"
           /\ Len(trace) = 2
           /\ trace[1].prim = "getRotationMatrix2D"
           /\ trace[1].args[1] =
                  IF call.args.rotPoint = None THEN <<width \div 2, height \div 2>>
                  ELSE call.args.rotPoint.v
           /\ trace[2].prim = "warpAffine"
           /\ trace[2].args[3] = <<width, height>>

FetchFails == call.env.fault \in 1..2
DecoderRaises == call.env.fault = 3
Undecodable == call.args.url # PictureUrl

\* C4 as claimed: url_to_image ends with an error whenever fetching or
\* decoding fails, for either rgb.
C4_NeverReturnsOnFailure ==
    (Done("url_to_image") /\ (FetchFails \/ DecoderRaises \/ Undecodable))
    => outcome.kind = "raise"

\* C4, amended: a failing fetch, and a decoder that raises, end the call with
\* that primitive's own error for either rgb; bytes that are no picture make
\* the decoder answer None without raising, and the call then ends with the
\* AttributeError of bgr_to_rgb when rgb is true and returns None when rgb is
\* false.
C4_FailurePropagation ==
    Done("url_to_image") =>
        /\ call.env.fault = 1 => outcome = Raise("primitive error", "urlopen")
        /\ call.env.fault = 2 => outcome = Raise("primitive error", "read")
        /\ call.env.fault = 3 => outcome = Raise("primitive error", "imdecode")
        /\ (call.env.fault \notin 1..3 /\ Undecodable) =>
               IF call.args.rgb = PyBool(TRUE)
               THEN outcome.kind = "raise" /\ outcome.val[1] = "AttributeError"
               ELSE outcome = Return(None)
        /\ (outcome.kind = "return" /\ outcome.val # None) =>
               (~FetchFails /\ ~DecoderRaises /\ ~Undecodable)

C4_Witness ==
    /\ Done("url_to_image")
    /\ Undecodable
    /\ call.args.rgb = PyBool(FALSE)
    /\ call.env.fault = 0
    /\ outcome = Return(None)
    /\ Len(trace) = 3

IsShapeError(o, n) ==
    /\ o.kind = "raise"
    /\ o.val[1] = "ValueError"
    /\ o.val[2][1] = "Image of shape 3 expected. Found shape"
    /\ o.val[2][2] = n

\* C5: each of the eight colour conversions fails with its shape error, and
\* invokes no primitive, for every image whose number of dimensions is not 3;
\* for an image of 3 dimensions the shape check does not fail (the conversion
\* primitive is invoked).
C5_ShapeCheck ==
    (pc = "done" /\ call.fn \in ColourFns /\ call.args.img.t = "ndarray") =>
        IF ndim(call.args.img) # 3
        THEN IsShapeError(outcome, ndim(call.args.img)) /\ trace = <<>>
        ELSE /\ ~(outcome.kind = "raise" /\ outcome.val[1] = "ValueError")
             /\ Len(trace) = 1
             /\ trace[1].prim = "cvtColor"

C5_Witness ==
    /\ Done("bgr_to_gray")
    /\ call.args.img.t = "ndarray"
    /\ ndim(call.args.img) = 2
    /\ IsShapeError(outcome, 2)
    /\ trace = <<>>

AutoReachesCanny ==
    /\ Done("edges")
    /\ call.args.use_median = PyBool(TRUE)
    /\ outcome.kind = "return"

\* The sigma in force, as <<numerator, denominator>>: 3/10 when none is given.
SigmaInForce ==
    IF call.args.sigma = None THEN <<3, 10>>
    ELSE IF call.args.sigma.t = "float" THEN call.args.sigma.v
    ELSE <<call.args.sigma.v, 1>>

\* n = int(x) for a double x whose real value is a/b > 0 (b > 0): the
\* truncation of a/b, or, for a sigma that is no double exactly, the integer
\* just below a product whose real value is an integer.
IsTruncOf(n, a, b, sig) ==
    \/ n * b <= a /\ a < (n + 1) * b
    \/ a = (n + 1) * b /\ ~(\E p \in {1, 2, 4, 8, 16} : (sig[1] * p) % sig[2] = 0)

PrimitiveFailed == trace # <<>> /\ ~trace[Len(trace)].ok

\* C7: a failure of the primitive inside mean or split reaches the caller as
\* the one generic error with its fixed message, whatever the cause; a failure
\* of a primitive inside merge, translate, rotate, energy_map, color_map or a
\* colour conversion that passed its shape check reaches the caller as it is.
C7_RewrapOrPropagate ==
    (pc = "done" /\ PrimitiveFailed) =>
        /\ call.fn \in {"mean", "split"} =>
               outcome = Raise("ValueError", "mean() expects an image")
        /\ call.fn \in {"merge", "translate", "rotate", "energy_map", "color_map"}
                          \cup ColourFns =>
               outcome = Raise("primitive error", trace[Len(trace)].prim)

C7_Witness ==
    /\ Done("split")
    /\ call.args.img.t = "ndarray"
    /\ call.env.fault = 1
    /\ PrimitiveFailed
    /\ outcome = Raise("ValueError", "mean() expects an image")

RoundTripDone ==
    /\ Done("rgb_to_bgr")
    /\ hist # <<>>
    /\ hist[1].call.fn = "bgr_to_rgb"
    /\ call.env.fault = 0
RoundTripInput == hist[1].call.args.img

\* C8 as claimed: for every image of 3 dimensions, whatever the size of its
\* channel dimension, bgr_to_rgb then rgb_to_bgr gives back the image.
C8_RoundTripAnyChannels ==
    /\ (Done("bgr_to_rgb") /\ hist = <<>> /\ call.args.img.t = "ndarray"
            /\ ndim(call.args.img) = 3 /\ call.env.fault = 0)
           => outcome.kind = "return"
    /\ RoundTripDone => outcome = Return(RoundTripInput)

\* C8, amended: for every image of 3 dimensions whose channel dimension has
\* size 3, bgr_to_rgb then rgb_to_bgr gives back the image; an image of 4
\* channels comes back with 3, and with any other channel size the first
\* conversion fails in the primitive.
C8_RoundTrip ==
    /\ (Done("bgr_to_rgb") /\ hist = <<>> /\ call.args.img.t = "ndarray"
            /\ ndim(call.args.img) = 3 /\ call.env.fault = 0) =>
           IF call.args.img.v.shape[3] \in {3, 4}
           THEN /\ outcome.kind = "return"
                /\ outcome.val.t = "ndarray"
                /\ outcome.val.v.shape[3] = 3
                /\ \A p \in 0..(pixels(call.args.img) - 1) :
                       LET c == call.args.img.v.shape[3]
                       IN /\ outcome.val.v.data[3 * p + 1] = call.args.img.v.data[c * p + 3]
                          /\ outcome.val.v.data[3 * p + 2] = call.args.img.v.data[c * p + 2]
                          /\ outcome.val.v.data[3 * p + 3] = call.args.img.v.data[c * p + 1]
           ELSE outcome = Raise("primitive error", "cvtColor")
    /\ RoundTripDone =>
           IF RoundTripInput.v.shape[3] = 3
           THEN outcome = Return(RoundTripInput)
           ELSE /\ outcome.kind = "return"
                /\ outcome.val.t = "ndarray"
                /\ outcome.val.v.shape = <<RoundTripInput.v.shape[1],
                                           RoundTripInput.v.shape[2], 3>>
                /\ outcome.val # RoundTripInput

C8_Witness ==
    /\ RoundTripDone
    /\ RoundTripInput.v.shape = <<1, 2, 3>>
    /\ RoundTripInput.v.data[1] # RoundTripInput.v.data[3]
    /\ hist[1].outcome.val # RoundTripInput
    /\ outcome = Return(RoundTripInput)

MeanReturned == Done("mean") /\ outcome.kind = "return"

\* C9 as claimed: the sequence mean returns is as long as the image has
\* channels.
C9_LengthIsChannelCount ==
    MeanReturned => Len(outcome.val.v) = channels(call.args.image)

\* C9, amended: for every image mean accepts it returns a sequence of exactly
\* four numbers: the per-channel averages in the first channel-count places
\* and zero in the others.
C9_FourEntries ==
    MeanReturned =>
        LET img == call.args.image
            c == IF Len(img.v.shape) = 3 THEN img.v.shape[3] ELSE 1
            n == Len(img.v.data) \div c
            entry(k) == outcome.val.v[k].v
        IN /\ Len(outcome.val.v) = 4
           /\ c <= 4
           /\ \A k \in 1..4 :
                  IF k > c THEN entry(k)[1] = 0
                  ELSE call.args.mask = None =>
                           /\ entry(k)[2] = n
                           /\ n = 1 => entry(k)[1] = img.v.data[k]
                           /\ n = 2 => entry(k)[1] = img.v.data[k] + img.v.data[c + k]

C9_Witness ==
    /\ MeanReturned
    /\ call.args.mask = None
    /\ call.args.image = NdArray(<<1, 2>>, <<100, MaxPixel>>)
    /\ outcome.val.v = <<PyFloat(100 + MaxPixel, 2), PyFloat(0, 1), PyFloat(0, 1), PyFloat(0, 1)>>

EdgesRepeated == Done("edges") /\ hist # <<>>

\* C10: in automatic mode the thresholds are dummies: two calls that differ
\* only in their integer thresholds invoke the same primitives with the same
\* (low, high) and end the same; in manual mode the primitive gets exactly
\* (threshold1, threshold2), and two calls that differ only in sigma end the
\* same.
C10_DummyThresholds ==
    /\ (EdgesRepeated /\ call.args.use_median = PyBool(TRUE)
            /\ call.args.sigma = hist[1].call.args.sigma) =>
           (trace = hist[1].trace /\ outcome = hist[1].outcome)
    /\ (Done("edges") /\ call.args.use_median = PyBool(FALSE) /\ trace # <<>>) =>
           /\ Len(trace) = 1
           /\ trace[1].prim = "Canny"
           /\ trace[1].args = <<call.args.img, call.args.threshold1, call.args.threshold2>>
    /\ (EdgesRepeated /\ call.args.use_median = PyBool(FALSE)
            /\ call.args.threshold1 = hist[1].call.args.threshold1
            /\ call.args.threshold2 = hist[1].call.args.threshold2) =>
           (trace = hist[1].trace /\ outcome = hist[1].outcome)

C10_Witness ==
    /\ EdgesRepeated
    /\ call.args.use_median = PyBool(TRUE)
    /\ call.args.sigma = hist[1].call.args.sigma
    /\ call.args.threshold1 # hist[1].call.args.threshold1
    /\ call.args.threshold2 # hist[1].call.args.threshold2
    /\ outcome.kind = "return"
    /\ outcome = hist[1].outcome

====
